---- MODULE Spec2Model ----
(***************************************************************************)
(* Model of the Opus identification-header codec (OpusHeader.cpp):         *)
(* ParseOpusHeader and WriteOpusHeader, driven by a caller that receives   *)
(* buffers from a container, parses them, builds headers, serialises them  *)
(* and parses the serialised bytes back.                                   *)
(*                                                                         *)
(* Buffers are functions over 0..size-1, so that every index is the byte   *)
(* offset the source uses.  Bytes are integers in 0..255.                  *)
(***************************************************************************)
EXTENDS Integers, Sequences, FiniteSets, TLC

-----------------------------------------------------------------------------
(* Program constants                                                       *)

kMaxChannels == 8

\* Faulty variant: the table with the rows of 3 and 4 channels exchanged.
kOpusChannelMap_RowsExchanged ==
    << <<0, 0, 0, 0, 0, 0, 0, 0>>,
       <<0, 1, 0, 0, 0, 0, 0, 0>>,
       <<0, 1, 2, 3, 0, 0, 0, 0>>,
       <<0, 2, 1, 0, 0, 0, 0, 0>>,
       <<0, 4, 1, 2, 3, 0, 0, 0>>,
       <<0, 4, 1, 2, 3, 5, 0, 0>>,
       <<0, 4, 1, 2, 3, 5, 6, 0>>,
       <<0, 6, 1, 2, 3, 4, 5, 7>> >>

kOpusChannelMap ==
    << <<0, 0, 0, 0, 0, 0, 0, 0>>,
       <<0, 1, 0, 0, 0, 0, 0, 0>>,
       <<0, 2, 1, 0, 0, 0, 0, 0>>,
       <<0, 1, 2, 3, 0, 0, 0, 0>>,
       <<0, 4, 1, 2, 3, 0, 0, 0>>,
       <<0, 4, 1, 2, 3, 5, 0, 0>>,
       <<0, 4, 1, 2, 3, 5, 6, 0>>,
       <<0, 6, 1, 2, 3, 4, 5, 7>> >>

\* Faulty variant: the fixed region taken to be one byte longer.
kOpusHeaderSize_OneMore == 19 + 1

kOpusHeaderSize == 19

kOpusHeaderLabelOffset == 0

kOpusHeaderVersionOffset == 8

kOpusHeaderChannelsOffset == 9

kOpusHeaderSkipSamplesOffset == 10

kOpusHeaderSampleRateOffset == 12

\* Faulty variant: the gain field taken to start one byte later.
kOpusHeaderGainOffset_OneMore == 16 + 1

kOpusHeaderGainOffset == 16

kOpusHeaderChannelMappingOffset == 18

kOpusHeaderNumStreamsOffset == 19

kOpusHeaderNumCoupledStreamsOffset == 20

\* Faulty variant: the stream map taken to start at the coupled-count byte.
kOpusHeaderStreamMapOffset_OneLess == 21 - 1

kOpusHeaderStreamMapOffset == 21

\* Faulty variant: the default layout allowed for three channels.
kMaxChannelsWithDefaultLayout_Three == 2 + 1

kMaxChannelsWithDefaultLayout == 2

\* "OpusHead" in ASCII, the magic string WriteOpusHeader copies to offset 0.
OpusHead == <<79, 112, 117, 115, 72, 101, 97, 100>>

-----------------------------------------------------------------------------
(* Integer conversions                                                     *)

\* A size_t value above every buffer size: what a sum that wrapped below zero
\* in int terms is in size_t arithmetic (2^w + v with -2^31 <= v < 0).
HugeSize == 1073741824

\* kOpusHeaderStreamMapOffset + channels in size_t arithmetic: the int
\* converts modulo 2^w, so the sum is off + channels when that is not negative
\* (a negative channels wraps round to it) and 2^w + off + channels otherwise.
SizeTAdd(off, channels) ==
    IF off + channels >= 0 THEN off + channels ELSE HugeSize

\* (uint8_t)v : the low byte of an integer.
ToUint8(v) == v % 256

\* static_cast<int16_t>(u) of a uint16_t: two's complement reinterpretation.
ToInt16(u) == IF u % 65536 >= 32768 THEN (u % 65536) - 65536 ELSE u % 65536

\* Byte k (0 = first in memory) of the little-endian object representation of
\* an integer, as memcpy copies it from a two's complement little-endian int.
ObjectByte(v, k) == (v \div (256 ^ k)) % 256

\* The number of bytes of a buffer.
Size(buf) == Cardinality(DOMAIN buf)

-----------------------------------------------------------------------------
(* ParseOpusHeader                                                         *)

\* Faulty variant: the two bytes read in big-endian order.
ReadLE16_BigEndian(data, data_size, read_offset) ==
    IF read_offset + 1 >= data_size
    THEN 0
    ELSE (data[read_offset] * 256 + data[read_offset + 1]) % 65536

ReadLE16(data, data_size, read_offset) ==
    IF read_offset + 1 >= data_size
    THEN 0
    ELSE (data[read_offset] + data[read_offset + 1] * 256) % 65536

\* The messages of the ALOGV calls on the five rejecting paths.
LogTooSmall == "Header size is too small."

LogBadChannels == "Invalid Header, bad channel count"

LogMissingMap == "Invalid Header, missing stream map."

LogInsufficient == "Invalid stream map; insufficient data for current channel count"

LogInconsistent == "Inconsistent channel mapping."

LogNone == ""

\* Faulty variant: the stream map copied before the stream counts are checked.
ParseStreamMap_CopyBeforeCheck(data, data_size, header) ==
    IF data_size < kOpusHeaderStreamMapOffset + header.channels
    THEN [ret |-> FALSE, log |-> LogInsufficient, header |-> header]
    ELSE LET h1 == [header EXCEPT
                      !.num_streams = data[kOpusHeaderNumStreamsOffset],
                      !.num_coupled = data[kOpusHeaderNumCoupledStreamsOffset],
                      !.stream_map =
                          [i \in DOMAIN header.stream_map |->
                              IF i < header.channels
                              THEN data[kOpusHeaderStreamMapOffset + i]
                              ELSE header.stream_map[i]]]
         IN  IF h1.num_streams + h1.num_coupled # h1.channels
             THEN [ret |-> FALSE, log |-> LogInconsistent, header |-> h1]
             ELSE [ret |-> TRUE, log |-> LogNone, header |-> h1]

\* Faulty variant: the copy loop stops one entry early.
ParseStreamMap_OneEntryShort(data, data_size, header) ==
    IF data_size < kOpusHeaderStreamMapOffset + header.channels
    THEN [ret |-> FALSE, log |-> LogInsufficient, header |-> header]
    ELSE LET h1 == [header EXCEPT
                      !.num_streams = data[kOpusHeaderNumStreamsOffset],
                      !.num_coupled = data[kOpusHeaderNumCoupledStreamsOffset]]
         IN  IF h1.num_streams + h1.num_coupled # h1.channels
             THEN [ret |-> FALSE, log |-> LogInconsistent, header |-> h1]
             ELSE [ret |-> TRUE, log |-> LogNone,
                   header |-> [h1 EXCEPT !.stream_map =
                       [i \in DOMAIN h1.stream_map |->
                           IF i < h1.channels - 1
                           THEN data[kOpusHeaderStreamMapOffset + i]
                           ELSE h1.stream_map[i]]]]

\* The explicit stream-map branch of ParseOpusHeader (family byte nonzero).
ParseStreamMap(data, data_size, header) ==
    IF data_size < kOpusHeaderStreamMapOffset + header.channels
    THEN [ret |-> FALSE, log |-> LogInsufficient, header |-> header]
    ELSE LET h1 == [header EXCEPT
                      !.num_streams = data[kOpusHeaderNumStreamsOffset],
                      !.num_coupled = data[kOpusHeaderNumCoupledStreamsOffset]]
         IN  IF h1.num_streams + h1.num_coupled # h1.channels
             THEN [ret |-> FALSE, log |-> LogInconsistent, header |-> h1]
             ELSE [ret |-> TRUE, log |-> LogNone,
                   header |-> [h1 EXCEPT !.stream_map =
                       [i \in DOMAIN h1.stream_map |->
                           IF i < h1.channels
                           THEN data[kOpusHeaderStreamMapOffset + i]
                           ELSE h1.stream_map[i]]]]

\* Faulty variant: the default layout always reports one coupled stream.
ParseDefaultLayout_AlwaysCoupled(header) ==
    IF header.channels > kMaxChannelsWithDefaultLayout
    THEN [ret |-> FALSE, log |-> LogMissingMap, header |-> header]
    ELSE [ret |-> TRUE, log |-> LogNone,
          header |-> [header EXCEPT
              !.num_streams = 1,
              !.num_coupled = 1,
              !.stream_map = [i \in DOMAIN header.stream_map |->
                                 CASE i = 0 -> 0
                                   [] i = 1 -> 1
                                   [] OTHER -> header.stream_map[i]]]]

\* Faulty variant: only the first channels entries of the default layout set.
ParseDefaultLayout_OnlyChannelEntries(header) ==
    IF header.channels > kMaxChannelsWithDefaultLayout
    THEN [ret |-> FALSE, log |-> LogMissingMap, header |-> header]
    ELSE [ret |-> TRUE, log |-> LogNone,
          header |-> [header EXCEPT
              !.num_streams = 1,
              !.num_coupled = IF header.channels > 1 THEN 1 ELSE 0,
              !.stream_map = [i \in DOMAIN header.stream_map |->
                                 CASE i = 0 -> 0
                                   [] i = 1 /\ header.channels > 1 -> 1
                                   [] OTHER -> header.stream_map[i]]]]

\* The default-layout branch of ParseOpusHeader (family byte zero).
ParseDefaultLayout(header) ==
    IF header.channels > kMaxChannelsWithDefaultLayout
    THEN [ret |-> FALSE, log |-> LogMissingMap, header |-> header]
    ELSE [ret |-> TRUE, log |-> LogNone,
          header |-> [header EXCEPT
              !.num_streams = 1,
              !.num_coupled = IF header.channels > 1 THEN 1 ELSE 0,
              !.stream_map = [i \in DOMAIN header.stream_map |->
                                 CASE i = 0 -> 0
                                   [] i = 1 -> 1
                                   [] OTHER -> header.stream_map[i]]]]

\* bool ParseOpusHeader(data, data_size, header): the value returned, the
\* message logged and the header as the call leaves it.
ParseOpusHeader(data, data_size, header) ==
    IF data_size < kOpusHeaderSize
    THEN [ret |-> FALSE, log |-> LogTooSmall, header |-> header]
    ELSE LET h1 == [header EXCEPT !.channels = data[kOpusHeaderChannelsOffset]]
         IN  IF h1.channels < 1 \/ h1.channels > kMaxChannels
             THEN [ret |-> FALSE, log |-> LogBadChannels, header |-> h1]
             ELSE LET h2 == [h1 EXCEPT
                        !.skip_samples =
                            ReadLE16(data, data_size, kOpusHeaderSkipSamplesOffset),
                        !.gain_db =
                            ToInt16(ReadLE16(data, data_size, kOpusHeaderGainOffset)),
                        !.channel_mapping = data[kOpusHeaderChannelMappingOffset]]
                  IN  IF h2.channel_mapping = 0
                      THEN ParseDefaultLayout(h2)
                      ELSE ParseStreamMap(data, data_size, h2)

\* The offsets ReadLE16 reads of the buffer.
ReadLE16Offsets(data_size, read_offset) ==
    IF read_offset + 1 >= data_size THEN {} ELSE {read_offset, read_offset + 1}

\* Faulty variant: the copy loop runs while i <= channels.
StreamMapLoop_Inclusive(channels) == 0..channels

\* The values of i in `for (int i = 0; i < header->channels; ++i)`.
StreamMapLoop(channels) == 0..(channels - 1)

\* What one ParseOpusHeader call touches: the offsets of data it reads and
\* the indices of header->stream_map it writes, statement by statement.
ParseAccesses(data, data_size) ==
    IF data_size < kOpusHeaderSize
    THEN [reads |-> {}, map_writes |-> {}]
    ELSE LET channels == data[kOpusHeaderChannelsOffset]
             r1 == {kOpusHeaderChannelsOffset}
         IN  IF channels < 1 \/ channels > kMaxChannels
             THEN [reads |-> r1, map_writes |-> {}]
             ELSE LET r2 == r1 \cup ReadLE16Offsets(data_size, kOpusHeaderSkipSamplesOffset)
                                \cup ReadLE16Offsets(data_size, kOpusHeaderGainOffset)
                                \cup {kOpusHeaderChannelMappingOffset}
                  IN  IF data[kOpusHeaderChannelMappingOffset] = 0
                      THEN IF channels > kMaxChannelsWithDefaultLayout
                           THEN [reads |-> r2, map_writes |-> {}]
                           ELSE [reads |-> r2, map_writes |-> {0, 1}]
                      ELSE IF data_size < kOpusHeaderStreamMapOffset + channels
                           THEN [reads |-> r2, map_writes |-> {}]
                           ELSE LET r3 == r2 \cup {kOpusHeaderNumStreamsOffset,
                                                   kOpusHeaderNumCoupledStreamsOffset}
                                IN  IF data[kOpusHeaderNumStreamsOffset]
                                         + data[kOpusHeaderNumCoupledStreamsOffset] # channels
                                    THEN [reads |-> r3, map_writes |-> {}]
                                    ELSE [reads |-> r3 \cup
                                              {kOpusHeaderStreamMapOffset + i :
                                                  i \in StreamMapLoop(channels)},
                                          map_writes |-> StreamMapLoop(channels)]

-----------------------------------------------------------------------------
(* WriteOpusHeader                                                         *)

\* Faulty variant: the output buffer is not cleared.
Memset0_Skipped(output) == output

\* memset(output, 0, output_size)
Memset0(output) == [i \in DOMAIN output |-> 0]

\* memcpy(output + off, bytes, Len(bytes)), as far as it lands in the buffer.
Memcpy(output, off, bytes) ==
    [i \in DOMAIN output |->
        IF i >= off /\ i < off + Len(bytes) THEN bytes[i - off + 1] ELSE output[i]]

\* output[off] = v
Store(output, off, v) == Memcpy(output, off, <<ToUint8(v)>>)

\* Faulty variant: the bytes of the object in big-endian order.
ObjectBytes_BigEndian(v, n) == [k \in 1..n |-> ObjectByte(v, n - k)]

\* The first n bytes of the object representation of an integer.
ObjectBytes(v, n) == [k \in 1..n |-> ObjectByte(v, k - 1)]

\* kOpusChannelMap[row][col]; outside the table the read is undefined and
\* yields whatever the adjacent memory holds.
TableInBounds(row, col) == row \in 0..(kMaxChannels - 1) /\ col \in 0..(kMaxChannels - 1)

TableRead(row, col, garbage) ==
    IF TableInBounds(row, col) THEN kOpusChannelMap[row + 1][col + 1] ELSE garbage

\* The fixed 19-byte region, lines 150-164.
WriteFixedRegion(header, input_sample_rate, output) ==
    LET o0 == Memset0(output)
        o1 == Memcpy(o0, kOpusHeaderLabelOffset, OpusHead)
        o2 == Store(o1, kOpusHeaderVersionOffset, 1)
        o3 == Store(o2, kOpusHeaderChannelsOffset, header.channels)
        o4 == Memcpy(o3, kOpusHeaderSkipSamplesOffset, ObjectBytes(header.skip_samples, 2))
        o5 == Memcpy(o4, kOpusHeaderSampleRateOffset, ObjectBytes(input_sample_rate, 4))
    IN  Memcpy(o5, kOpusHeaderGainOffset, ObjectBytes(header.gain_db, 2))

\* The stream-map region written when channels > 2, lines 168-177.
WriteStreamMap(header, output, garbage) ==
    LET o1 == Store(output, kOpusHeaderChannelMappingOffset, 1)
        o2 == Store(o1, kOpusHeaderNumStreamsOffset, header.channels)
        o3 == Store(o2, kOpusHeaderNumCoupledStreamsOffset, 0)
    IN  [i \in DOMAIN o3 |->
            IF i >= kOpusHeaderStreamMapOffset
               /\ i < kOpusHeaderStreamMapOffset + header.channels
            THEN TableRead(header.channels - 1, i - kOpusHeaderStreamMapOffset, garbage)
            ELSE o3[i]]

\* The value returned on the channels > 2 path, line 178.
StreamMapReturn(channels) == kOpusHeaderStreamMapOffset + channels + 1

\* The offsets WriteOpusHeader stores to once the size check has passed.
WrittenOffsets(channels) ==
    (0..kOpusHeaderChannelMappingOffset)
        \cup (IF channels > 2
              THEN kOpusHeaderNumStreamsOffset..(kOpusHeaderStreamMapOffset + channels - 1)
              ELSE {})

\* int WriteOpusHeader(header, input_sample_rate, output, output_size): the
\* value returned and the buffer as the call leaves it.  table_oob: some read
\* of kOpusChannelMap was outside the table; overrun: some store was outside
\* the output buffer.  garbage is the byte an out-of-table read yields.
WriteOpusHeader(header, input_sample_rate, output, output_size, garbage) ==
    LET total_size == SizeTAdd(kOpusHeaderStreamMapOffset, header.channels)
    IN  IF output_size < total_size
        THEN [ret |-> -1, output |-> output, table_oob |-> FALSE, overrun |-> FALSE]
        ELSE LET fixed == WriteFixedRegion(header, input_sample_rate, output)
                 overrun == \E off \in WrittenOffsets(header.channels) : off >= output_size
             IN  IF header.channels > 2
                 THEN [ret |-> StreamMapReturn(header.channels),
                       output |-> WriteStreamMap(header, fixed, garbage),
                       table_oob |-> \E i \in 0..(header.channels - 1) :
                                        ~TableInBounds(header.channels - 1, i),
                       overrun |-> overrun]
                 ELSE [ret |-> kOpusHeaderChannelMappingOffset + 1,
                       output |-> Store(fixed, kOpusHeaderChannelMappingOffset, 0),
                       table_oob |-> FALSE,
                       overrun |-> overrun]

-----------------------------------------------------------------------------
(* Inputs of the caller                                                    *)

\* Largest input buffer and largest output buffer a caller hands over.
MaxLen == 30

MaxCapacity == 30

\* Channel-count bytes 0..MaxChannelByte and stream-count bytes
\* 0..MaxStreamByte occur in the input buffers.
MaxChannelByte == 9

MaxStreamByte == 8

\* Channel counts up to MaxChannelsIn occur in hand-built headers.
MaxChannelsIn == 9

\* How often the caller re-reads a rejected buffer from the next offset.
MaxRetries == 1

LenInputs == 0..MaxLen

CapacityInputs == {0} \cup (17..MaxCapacity)

SkipInputs == {4660, 65535}

GainInputs == {-32768, -5, 300}

RateInputs == {48000, 16909060}

FillInputs == {170, 255}

GarbageBytes == {0, 9, 255}

ChannelInputs == {-22, -3, -1} \cup (0..MaxChannelsIn)

\* struct OpusHeader, zero-initialised.
ZeroHeader ==
    [channels |-> 0, channel_mapping |-> 0, num_streams |-> 0, num_coupled |-> 0,
     gain_db |-> 0, skip_samples |-> 0, stream_map |-> [i \in 0..(kMaxChannels - 1) |-> 0]]

\* Two contents of the stream fields of a hand-built header: the one a parse
\* of a default-layout header leaves, and one that matches no table row.
StreamShapes ==
    { [channel_mapping |-> 0, num_streams |-> 1, num_coupled |-> 1,
       stream_map |-> [i \in 0..(kMaxChannels - 1) |-> IF i = 1 THEN 1 ELSE 0]],
      [channel_mapping |-> 1, num_streams |-> 2, num_coupled |-> 3,
       stream_map |-> [i \in 0..(kMaxChannels - 1) |-> 7 - i]] }

HeaderInputs ==
    { [channels |-> c, channel_mapping |-> sh.channel_mapping,
       num_streams |-> sh.num_streams, num_coupled |-> sh.num_coupled,
       gain_db |-> g, skip_samples |-> s, stream_map |-> sh.stream_map] :
         c \in ChannelInputs, g \in GainInputs, s \in SkipInputs, sh \in StreamShapes }

\* Byte i of an input buffer with the given field bytes; pattern selects the
\* bytes of the stream-map region (1: ascending positions, 2: all 255).
InputByte(i, ch, skip, gain, fam, ns, nc, pattern) ==
    CASE i < 8  -> OpusHead[i + 1]
      [] i = 8  -> 1
      [] i = 9  -> ch
      [] i = 10 -> skip % 256
      [] i = 11 -> skip \div 256
      [] i \in 12..15 -> (48000 \div (256 ^ (i - 12))) % 256
      [] i = 16 -> (gain % 65536) % 256
      [] i = 17 -> (gain % 65536) \div 256
      [] i = 18 -> fam
      [] i = 19 -> ns
      [] i = 20 -> nc
      [] OTHER  -> IF pattern = 1 THEN (i - 21) % 8 ELSE 255

InputBuffer(len, ch, skip, gain, fam, ns, nc, pattern) ==
    [i \in 0..(len - 1) |-> InputByte(i, ch, skip, gain, fam, ns, nc, pattern)]

\* Buffers that vary the structure: length, channel count, family, streams.
StructureInputs ==
    { InputBuffer(len, ch, 4660, -5, fam, ns, nc, 1) :
        len \in LenInputs, ch \in 0..MaxChannelByte, fam \in {0, 1},
        ns \in 0..MaxStreamByte, nc \in {0, 1} }

\* Buffers that vary the field values of well-formed and near-well-formed headers.
FieldInputs ==
    { InputBuffer(len, ch, skip, gain, fam, ch - nc, nc, pattern) :
        len \in {19, 21, 25, MaxLen - 1, MaxLen}, ch \in {1, 2, 3, 8, 255},
        skip \in SkipInputs \cup {0}, gain \in GainInputs,
        fam \in {0, 1, 255}, nc \in {0, 1, 255}, pattern \in {1, 2} }

DataInputs == StructureInputs \cup FieldInputs

-----------------------------------------------------------------------------
(* The caller                                                              *)

VARIABLES
    pc,        \* where the caller is
    data,      \* the input buffer handed to ParseOpusHeader
    header,    \* the OpusHeader ParseOpusHeader fills in
    ret,       \* what the last ParseOpusHeader returned
    log,       \* what the last ParseOpusHeader logged
    prev,      \* return value and message of the call before the last
    retries,   \* re-reads of a rejected buffer so far
    wheader,   \* the OpusHeader handed to WriteOpusHeader
    rate,      \* the input_sample_rate handed to WriteOpusHeader
    output,    \* the output buffer handed to WriteOpusHeader
    wret,      \* what the last WriteOpusHeader returned
    fault      \* undefined behaviour the last WriteOpusHeader ran into

vars == <<pc, data, header, ret, log, prev, retries, wheader, rate, output, wret, fault>>

parseVars == <<data, header, ret, log, prev, retries>>

writeVars == <<wheader, rate, output, wret, fault>>

NoCall == [called |-> FALSE, ret |-> FALSE, log |-> LogNone]

Init ==
    /\ pc = "start"
    /\ data = <<>>
    /\ header = ZeroHeader
    /\ ret = FALSE
    /\ log = LogNone
    /\ prev = NoCall
    /\ retries = 0
    /\ wheader = ZeroHeader
    /\ rate = 0
    /\ output = <<>>
    /\ wret = 0
    /\ fault = {}

\* The container reader hands over a buffer.
ReceiveBuffer ==
    /\ pc = "start"
    /\ data' \in DataInputs
    /\ pc' = "received"
    /\ UNCHANGED <<header, ret, log, prev, retries>>
    /\ UNCHANGED writeVars

\* ParseOpusHeader(data, data_size, &header)
ParseCall ==
    /\ pc \in {"received", "readback"}
    /\ LET r == ParseOpusHeader(data, Size(data), header)
       IN  /\ header' = r.header
           /\ ret' = r.ret
           /\ log' = r.log
    /\ pc' = IF pc = "readback" THEN "reparsed" ELSE "parsed"
    /\ UNCHANGED <<data, prev, retries>>
    /\ UNCHANGED writeVars

\* After a rejection the reader re-reads from the next offset and tries again.
Retry ==
    /\ pc \in {"parsed", "reparsed"}
    /\ ~ret
    /\ retries < MaxRetries
    /\ Size(data) > 0
    /\ data' = [i \in 0..(Size(data) - 2) |-> data[i + 1]]
    /\ prev' = [called |-> TRUE, ret |-> ret, log |-> log]
    /\ retries' = retries + 1
    /\ pc' = "received"
    /\ UNCHANGED <<header, ret, log>>
    /\ UNCHANGED writeVars

\* The caller builds a header field by field.
BuildHeader ==
    /\ pc = "start"
    /\ wheader' \in HeaderInputs
    /\ pc' = "built"
    /\ UNCHANGED <<rate, output, wret, fault>>
    /\ UNCHANGED parseVars

\* The caller provides an output buffer, with whatever it held before.
AllocOutput ==
    /\ pc = "built"
    /\ \E cap \in CapacityInputs, fill \in FillInputs :
          output' = [i \in 0..(cap - 1) |-> fill]
    /\ pc' = "allocated"
    /\ UNCHANGED <<wheader, rate, wret, fault>>
    /\ UNCHANGED parseVars

\* WriteOpusHeader(wheader, rate, output, output_size).  A call that runs into
\* undefined behaviour either goes on with the bytes it read or is killed.
WriteCall ==
    /\ pc = "allocated"
    /\ \E r \in RateInputs, garbage \in GarbageBytes, killed \in BOOLEAN :
          LET w == WriteOpusHeader(wheader, r, output, Size(output), garbage)
              ub == (IF w.table_oob THEN {"table_read"} ELSE {})
                      \cup (IF w.overrun THEN {"buffer_write"} ELSE {})
          IN  /\ rate' = r
              /\ fault' = ub
              /\ killed => ub # {}
              /\ ~w.table_oob => garbage = 0
              /\ IF killed
                 THEN /\ pc' = "killed"
                      /\ UNCHANGED <<output, wret>>
                 ELSE /\ pc' = "written"
                      /\ output' = w.output
                      /\ wret' = w.ret
    /\ UNCHANGED wheader
    /\ UNCHANGED parseVars

\* The caller reads back the wret bytes the writer reported; a byte beyond the
\* buffer is whatever the adjacent memory holds.
ReadBack ==
    /\ pc = "written"
    /\ wret >= 0
    /\ \E garbage \in GarbageBytes :
          /\ wret <= Size(output) => garbage = 0
          /\ data' = [i \in 0..(wret - 1) |->
                         IF i \in DOMAIN output THEN output[i] ELSE garbage]
    /\ header' = ZeroHeader
    /\ pc' = "readback"
    /\ UNCHANGED <<ret, log, prev, retries>>
    /\ UNCHANGED writeVars

Next ==
    \/ ReceiveBuffer
    \/ ParseCall
    \/ Retry
    \/ BuildHeader
    \/ AllocOutput
    \/ WriteCall
    \/ ReadBack

Spec == Init /\ [][Next]_vars

-----------------------------------------------------------------------------
(* Properties                                                              *)

\* A ParseOpusHeader call has just returned.
Parsed == pc \in {"parsed", "reparsed"}

\* A WriteOpusHeader call has just returned.
Written == pc = "written"

\* Acceptance as the header layout states it, on the bytes of a buffer.
Acceptable(d) ==
    /\ Size(d) >= 19
    /\ d[9] \in 1..8
    /\ \/ d[18] = 0 /\ d[9] <= 2
       \/ d[18] # 0 /\ Size(d) >= 21 + d[9] /\ d[19] + d[20] = d[9]

\* C1: parse succeeds if and only if length >= 19, the channel-count byte is
\* in 1..8, and either the family byte is 0 with at most 2 channels or it is
\* nonzero with length >= 21 + channel_count and
\* byte[19] + byte[20] = channel_count; in every other case it fails.
C1_ParseAcceptsExactly == Parsed => (ret <=> Acceptable(data))

\* An explicit-mapping buffer of exactly 21 + channel_count bytes is accepted.
C1_Witness ==
    /\ pc = "parsed" /\ ret
    /\ data[18] # 0 /\ data[9] = 3 /\ Size(data) = 24
    /\ data[19] = 2 /\ data[20] = 1

\* The rows of the Channel-Mapping Table for 3..8 channels.
TableRow(n) ==
    CASE n = 3 -> <<0, 2, 1>>
      [] n = 4 -> <<0, 1, 2, 3>>
      [] n = 5 -> <<0, 4, 1, 2, 3>>
      [] n = 6 -> <<0, 4, 1, 2, 3, 5>>
      [] n = 7 -> <<0, 4, 1, 2, 3, 5, 6>>
      [] n = 8 -> <<0, 6, 1, 2, 3, 4, 5, 7>>

\* C2: for channel_count in 3..8 and capacity >= 21 + channel_count, write
\* sets byte 18 to 1, byte 19 to channel_count, byte 20 to 0 and bytes
\* 21..21+channel_count-1 to the table row of that channel count, whatever
\* the stream fields of the input header are.
C2_WriteStreamMapRegion ==
    (Written /\ wheader.channels \in 3..8 /\ Size(output) >= 21 + wheader.channels)
        => /\ output[18] = 1
           /\ output[19] = wheader.channels
           /\ output[20] = 0
           /\ \A i \in 0..(wheader.channels - 1) :
                  output[21 + i] = TableRow(wheader.channels)[i + 1]

\* A 6-channel header whose own stream fields match no table row was written.
C2_Witness ==
    /\ Written /\ wheader.channels = 6 /\ wheader.num_coupled = 3
    /\ wheader.stream_map[0] = 7
    /\ Size(output) = 27
    /\ output[22] = 4 /\ output[26] = 5

\* C3: for channel_count in 3..8 and capacity >= 21 + channel_count, a
\* successful write returns exactly 21 + channel_count.
C3_WriteReturnsBytesWritten ==
    (Written /\ wheader.channels \in 3..8 /\ Size(output) >= 21 + wheader.channels)
        => wret = 21 + wheader.channels

\* The output buffer holds a header that carries the given channel count.
CarriesChannels(out, channels) ==
    /\ Size(out) > 9
    /\ \A i \in 0..7 : out[i] = OpusHead[i + 1]
    /\ out[9] = channels % 256

\* C4: write with a channel_count outside 1..8 returns a failure, whatever
\* the capacity, never reads the Channel-Mapping Table outside rows and
\* columns 0..7, and never emits a header carrying that channel count.
C4_WriteRejectsBadChannels ==
    (pc \in {"written", "killed"} /\ wheader.channels \notin 1..8)
        => /\ pc = "written"
           /\ wret < 0
           /\ "table_read" \notin fault
           /\ ~CarriesChannels(output, wheader.channels)

\* C5: for channel_count in 1..8 write succeeds when the capacity is exactly
\* 21 + channel_count and fails when it is any smaller (for 1 and 2 channels
\* too); on that failure no byte of the output buffer is modified.
C5_WriteCapacity ==
    [][(pc = "allocated" /\ pc' = "written" /\ wheader.channels \in 1..8)
          => /\ Size(output) = 21 + wheader.channels => wret' >= 0
             /\ Size(output) < 21 + wheader.channels
                   => (wret' = -1 /\ output' = output)]_vars

\* A stereo header met a buffer one byte short and the buffer kept its bytes.
C5_Witness ==
    /\ Written /\ wheader.channels = 2 /\ Size(output) = 22
    /\ wret = -1
    /\ \A i \in DOMAIN output : output[i] = 170

\* C6: for channel_count in {1, 2}, parsing the bytes a successful write
\* produced (of the returned length) succeeds and yields the same
\* channel_count, pre_skip_samples and output_gain_db, with
\* channel_mapping_family 0, stream_count 1 and coupled_stream_count 1 for
\* two channels and 0 for one; a gain of -5 is written as 0xFB 0xFF.
C6_RoundTrip ==
    (pc = "reparsed" /\ wheader.channels \in {1, 2})
        => /\ ret
           /\ header.channels = wheader.channels
           /\ header.skip_samples = wheader.skip_samples
           /\ header.gain_db = wheader.gain_db
           /\ header.channel_mapping = 0
           /\ header.num_streams = 1
           /\ header.num_coupled = (IF wheader.channels > 1 THEN 1 ELSE 0)
           /\ wheader.gain_db = -5 => (data[16] = 251 /\ data[17] = 255)

\* A stereo header with gain -5 went through write and parse.
C6_Witness ==
    /\ pc = "reparsed" /\ wheader.channels = 2 /\ wheader.gain_db = -5
    /\ wheader.skip_samples = 4660
    /\ Size(data) = 19 /\ data[16] = 251
    /\ header.gain_db = -5 /\ header.skip_samples = 4660

\* C7: every header a successful parse returns has channel_count in 1..8 and
\* stream_count + coupled_stream_count = channel_count, in the family-0
\* branch and in the explicit-mapping branch.
C7_ParsedHeaderInvariants ==
    (Parsed /\ ret)
        => /\ header.channels \in 1..8
           /\ header.num_streams + header.num_coupled = header.channels

\* A mono default-layout header was accepted.
C7_Witness ==
    /\ pc = "parsed" /\ ret
    /\ data[18] = 0 /\ data[9] = 1
    /\ header.channels = 1 /\ header.num_coupled = 0

\* The message of the first check that fails, in the order length, channel
\* count, family 0 beyond two channels, stream-map length, stream counts.
FirstFailure(d) ==
    CASE Size(d) < 19 -> LogTooSmall
      [] Size(d) >= 19 /\ d[9] \notin 1..8 -> LogBadChannels
      [] Size(d) >= 19 /\ d[9] \in 1..8 /\ d[18] = 0 /\ d[9] > 2 -> LogMissingMap
      [] Size(d) >= 19 /\ d[9] \in 1..8 /\ d[18] # 0 /\ Size(d) < 21 + d[9]
            -> LogInsufficient
      [] Size(d) >= 19 /\ d[9] \in 1..8 /\ d[18] # 0 /\ Size(d) >= 21 + d[9]
            /\ d[19] + d[20] # d[9] -> LogInconsistent
      [] OTHER -> LogNone

\* Two calls in a row ran into different failing checks.
TwoKindsFailed ==
    Parsed /\ prev.called /\ log # LogNone /\ prev.log # LogNone /\ prev.log # log

\* C8 as stated: parse applies its checks in the fixed order and reports the
\* first that fails, and each of the five failure kinds reaches the caller
\* as a value distinguishable from the other four.
C8_FailuresDistinguishable ==
    /\ Parsed => log = FirstFailure(data)
    /\ TwoKindsFailed => prev.ret # ret

\* C8 as amended: parse applies its checks in the fixed order and the first
\* that fails decides the message logged, but all five failure kinds reach
\* the caller as the same value, false.
C8_FailuresInOrderSameValue ==
    /\ Parsed => (log = FirstFailure(data) /\ (log # LogNone => ret = FALSE))
    /\ TwoKindsFailed => prev.ret = ret

\* A buffer that breaks the channel-count, stream-map-length and
\* stream-count checks was rejected for its channel count, after a rejection
\* for another reason.
C8_Witness ==
    /\ TwoKindsFailed
    /\ log = LogBadChannels
    /\ data[18] # 0 /\ Size(data) < 21

\* The unsigned 16-bit pattern of a signed 16-bit value.
Pattern16(v) == IF v < 0 THEN v + 65536 ELSE v

\* C9: for channel_count in 1..8 a successful write produces bytes 0..7 =
\* "OpusHead", byte 8 = 1, byte 9 = channel_count, bytes 10..11 =
\* pre_skip_samples, 12..15 = input_sample_rate and 16..17 = output_gain_db,
\* each little-endian at its fixed offset.
C9_WriteFixedLayout ==
    (Written /\ wheader.channels \in 1..8 /\ wret >= 0)
        => /\ \A i \in 0..7 : output[i] = OpusHead[i + 1]
           /\ output[8] = 1
           /\ output[9] = wheader.channels
           /\ output[10] + 256 * output[11] = wheader.skip_samples
           /\ output[10] \in 0..255 /\ output[11] \in 0..255
           /\ output[12] + 256 * output[13] + 65536 * output[14] = rate % 16777216
           /\ output[15] = rate \div 16777216
           /\ \A i \in 12..14 : output[i] \in 0..255
           /\ output[16] + 256 * output[17] = Pattern16(wheader.gain_db)
           /\ output[16] \in 0..255 /\ output[17] \in 0..255

\* An 8-channel header with rate 0x01020304 and gain -5 was written.
C9_Witness ==
    /\ Written /\ wheader.channels = 8 /\ wret >= 0
    /\ rate = 16909060 /\ wheader.gain_db = -5 /\ wheader.skip_samples = 4660
    /\ output[12] = 4 /\ output[15] = 1 /\ output[16] = 251 /\ output[10] = 52

\* C10: for channel_count in {1, 2} and sufficient capacity, write sets byte
\* 18 to 0, leaves every byte from offset 19 to the capacity 0 whatever the
\* buffer held before, and returns 19.
C10_WriteDefaultLayout ==
    (Written /\ wheader.channels \in {1, 2} /\ Size(output) >= 21 + wheader.channels)
        => /\ output[18] = 0
           /\ \A i \in 19..(Size(output) - 1) : output[i] = 0
           /\ wret = 19

\* A stereo header was written into a 30-byte buffer.
C10_Witness ==
    /\ Written /\ wheader.channels = 2 /\ Size(output) = 30
    /\ wret = 19 /\ output[18] = 0 /\ output[29] = 0

\* C11: for every buffer of length >= 19 with family byte 0 and channel-count
\* byte 1 or 2, parse succeeds with stream_count 1, coupled_stream_count 1
\* for two channels and 0 for one, and positions 0 and 1 of
\* channel_to_stream_position set to 0 and 1, whatever the bytes from offset
\* 19 on are.
C11_ParseDefaultLayout ==
    (Parsed /\ Size(data) >= 19 /\ data[18] = 0 /\ data[9] \in {1, 2})
        => /\ ret
           /\ header.num_streams = 1
           /\ header.num_coupled = (IF data[9] > 1 THEN 1 ELSE 0)
           /\ header.stream_map[0] = 0
           /\ header.stream_map[1] = 1

\* A mono default-layout buffer with nonzero bytes beyond offset 18 was parsed.
C11_Witness ==
    /\ pc = "parsed" /\ Size(data) = 30
    /\ data[18] = 0 /\ data[9] = 1
    /\ data[19] = 5 /\ data[20] = 1 /\ data[22] = 1
    /\ ret /\ header.stream_map[1] = 1

\* C12: for every accepted buffer whose family byte is nonzero (1 or any of
\* 2..255 alike), parse yields stream_count = byte[19],
\* coupled_stream_count = byte[20] and channel_to_stream_position[i] =
\* byte[21 + i] for every i below channel_count, copied as they are, with no
\* check on the values or the uniqueness of the entries.
C12_ParseCopiesStreamMap ==
    (Parsed /\ ret /\ data[18] # 0)
        => /\ header.num_streams = data[19]
           /\ header.num_coupled = data[20]
           /\ \A i \in 0..(data[9] - 1) : header.stream_map[i] = data[21 + i]

\* A 3-channel buffer of family 255 whose map entries are all 255 was accepted.
C12_Witness ==
    /\ pc = "parsed" /\ ret
    /\ data[18] = 255 /\ data[9] = 3
    /\ data[21] = 255 /\ data[22] = 255 /\ data[23] = 255
    /\ header.stream_map[0] = 255 /\ header.stream_map[2] = 255
    /\ header.num_streams = 2 /\ header.num_coupled = 1

\* The buffer does not hold the second byte of the pre-skip field (offset 11)
\* or of the gain field (offset 17).
LacksSecondByte(d) == 11 \notin DOMAIN d \/ 17 \notin DOMAIN d

\* ParseOpusHeader lets the buffer through its minimum-length check.
PassesLengthGate(d) == ParseOpusHeader(d, Size(d), ZeroHeader).log # LogTooSmall

\* The two 16-bit fields of the header are the little-endian values of the
\* bytes at offsets 10..11 and 16..17.
FieldsDecodedLittleEndian ==
    /\ header.skip_samples = data[10] + 256 * data[11]
    /\ Pattern16(header.gain_db) = data[16] + 256 * data[17]

\* C13 as stated: among the buffers a caller can hand over there are some
\* that pass the 19-byte minimum-length gate and yet lack the second byte of
\* the pre-skip or the gain field; parse decodes that field as 0 and does not
\* fail because of it, and decodes the field as byte[off] + 256 * byte[off+1]
\* when the second byte is there.
C13_LenientDecodeOccurs ==
    Parsed
        => /\ \E d \in DataInputs : PassesLengthGate(d) /\ LacksSecondByte(d)
           /\ (ret /\ 11 \notin DOMAIN data) => header.skip_samples = 0
           /\ (ret /\ 17 \notin DOMAIN data) => header.gain_db = 0
           /\ (ret /\ ~LacksSecondByte(data)) => FieldsDecodedLittleEndian

\* C13 as amended: no buffer that passes the 19-byte minimum-length gate
\* lacks the second byte of the pre-skip or the gain field, so parse never
\* decodes either as 0 for want of a byte; for every buffer that passes the
\* length and channel-count checks pre_skip_samples is
\* byte[10] + 256 * byte[11] and output_gain_db is byte[16] + 256 * byte[17]
\* read as a two's complement 16-bit value.
C13_NoLenientDecode ==
    Parsed
        => /\ log # LogTooSmall => ~LacksSecondByte(data)
           /\ log \notin {LogTooSmall, LogBadChannels} => FieldsDecodedLittleEndian

\* The shortest buffer that passes the gate was parsed, and a 17-byte buffer,
\* which lacks the second gain byte, is among the inputs and does not pass.
C13_Witness ==
    /\ pc = "parsed" /\ ret /\ Size(data) = 19
    /\ data[16] = 251 /\ data[17] = 255 /\ header.gain_db = -5
    /\ data[10] = 52 /\ data[11] = 18 /\ header.skip_samples = 4660
    /\ \E d \in DataInputs : Size(d) = 17 /\ ~PassesLengthGate(d)

\* C14: for every buffer content and every declared length, 0 included,
\* every byte index parse reads is below the declared length and every index
\* of channel_to_stream_position it writes is in 0..7, on accepting and on
\* rejecting paths alike.
C14_ParseStaysInBounds ==
    Parsed
        => LET a == ParseAccesses(data, Size(data))
           IN  /\ \A i \in a.reads : i >= 0 /\ i < Size(data)
               /\ \A j \in a.map_writes : j \in 0..7

\* An 8-channel buffer of exactly 29 bytes was accepted: its last byte was
\* read and the last map entry written.
C14_Witness ==
    /\ pc = "parsed" /\ ret
    /\ data[9] = 8 /\ Size(data) = 29
    /\ 28 \in ParseAccesses(data, Size(data)).reads
    /\ 7 \in ParseAccesses(data, Size(data)).map_writes
    /\ header.stream_map[7] = data[28]

\* A step that is one ParseOpusHeader call.
ParseStep == pc \in {"received", "readback"} /\ pc' \in {"parsed", "reparsed"}

HeaderFields ==
    {"channels", "channel_mapping", "num_streams", "num_coupled",
     "gain_db", "skip_samples", "stream_map"}

\* The fields assigned before the check that logs the given message.
AssignedBefore(message) ==
    CASE message = LogTooSmall -> {}
      [] message = LogBadChannels -> {"channels"}
      [] message \in {LogMissingMap, LogInsufficient}
            -> {"channels", "skip_samples", "gain_db", "channel_mapping"}
      [] message = LogInconsistent
            -> {"channels", "skip_samples", "gain_db", "channel_mapping",
                "num_streams", "num_coupled"}
      [] OTHER -> HeaderFields

\* C15 as stated: when parse fails, for any of its five reasons, the caller's
\* header is left exactly as it was before the call: no field of it is
\* modified by a rejected parse.
C15_RejectedParseKeepsHeader ==
    [][(ParseStep /\ ~ret') => header' = header]_vars

\* C15 as amended: a parse that fails its length check leaves the caller's
\* header exactly as it was; a parse that fails a later check has overwritten
\* the fields assigned before that check (channel_count with the
\* channel-count byte; from the family check on also pre_skip_samples,
\* output_gain_db and channel_mapping_family; at the stream-count check also
\* stream_count and coupled_stream_count) and leaves every other field,
\* channel_to_stream_position among them, as it was.
C15_RejectedParseKeepsRest ==
    [][(ParseStep /\ ~ret')
          => /\ \A f \in HeaderFields \ AssignedBefore(log') : header'[f] = header[f]
             /\ log' # LogTooSmall => header'.channels = data[9]
             /\ log' \in {LogMissingMap, LogInsufficient, LogInconsistent}
                   => /\ header'.skip_samples = data[10] + 256 * data[11]
                      /\ Pattern16(header'.gain_db) = data[16] + 256 * data[17]
                      /\ header'.channel_mapping = data[18]
             /\ log' = LogInconsistent
                   => /\ header'.num_streams = data[19]
                      /\ header'.num_coupled = data[20]]_vars

\* A first parse into a zeroed header was rejected for its stream counts and
\* left the channel count and the stream counts of the buffer in the header.
C15_Witness ==
    /\ pc = "parsed" /\ retries = 0 /\ ~ret /\ log = LogInconsistent
    /\ header.channels = data[9] /\ header.channels = 3
    /\ header.num_streams = data[19] /\ header.num_streams = 2
    /\ header.skip_samples = 4660
    /\ header.stream_map = ZeroHeader.stream_map

====
